---- MODULE Spec2Model ----
(***************************************************************************)
(* Document ingestion and classification pipeline of the LegalDocs API     *)
(* (server/app/api/routes/documents.py).  The handlers are coroutines on   *)
(* one event loop: a handler runs without interruption between two         *)
(* `await`s, so every action below is the code between two awaits.  Each   *)
(* handler and each background job has its own SQLAlchemy session:         *)
(* attribute assignments stay in the session (`pending`) until db.commit() *)
(* writes them to the table in one UPDATE.                                 *)
(***************************************************************************)
EXTENDS Integers, Sequences, FiniteSets, TLC

\* ---------------------------------------------------------------- bounds
MaxDocs == 1       \* files the single uploads may save (ids are never reused)
MaxBatch == 3      \* files in one bulk upload, and files bulk uploads may save
MaxRedeliver == 1  \* duplicate invocations of a job (SpecRedeliver only)
MaxOrdered == 2    \* files of bulk uploads whose jobs run (SpecBulkJobs only)

\* ------------------------------------------------------------ data model
\* A nullable column or an optional Python value: {} is NULL / None.
None == {}
Some(v) == {v}
TheValue(o) == CHOOSE v \in o : TRUE

Users == {1, 2}

\* config.py: MAX_FILE_SIZE = 50 * 1024 * 1024
MAX_FILE_SIZE == 50 * 1024 * 1024
ALLOWED_FILE_TYPES ==
    { "application/pdf",
      "application/vnd.openxmlformats-officedocument.wordprocessingml.document",
      "application/msword", "text/plain", "text/html", "text/markdown" }

\* The seeded DocumentCategory table: id -> name, ids in insertion order.
default_categories ==
    << "Formation", "Governance", "Directors & Officers", "Cap Table",
       "Employees", "Intellectual Property", "Compliance" >>

\* A dict as a function on the keys it holds; d.get(k, default).
Get(d, k, default) == IF k \in DOMAIN d THEN d[k] ELSE default
\* Python truthiness of an optional string.
Truthy(o) == o # None /\ o # Some("")

\* Candidate uploads: (filename, len(file_content), content_type).
UploadFiles ==
    { [filename |-> "a.pdf", size |-> MAX_FILE_SIZE, content_type |-> "application/pdf"],
      [filename |-> "big.pdf", size |-> MAX_FILE_SIZE + 1, content_type |-> "application/pdf"],
      [filename |-> "c.exe", size |-> 1, content_type |-> "application/x-msdownload"] }
\* The files of a bulk upload: two valid files and an oversized one.
BulkFiles ==
    { [filename |-> "a.pdf", size |-> MAX_FILE_SIZE, content_type |-> "application/pdf"],
      [filename |-> "b.txt", size |-> 1, content_type |-> "text/plain"],
      [filename |-> "big.pdf", size |-> MAX_FILE_SIZE + 1, content_type |-> "application/pdf"] }

\* document_processor.validate_file: size cap, then MIME allow-list, then
\* a non-empty filename; the first failing rule gives the reason.
validate_file(filename, size, content_type) ==
    IF size > MAX_FILE_SIZE
    THEN [is_valid |-> FALSE, error_message |-> "File too large"]
    ELSE IF content_type \notin ALLOWED_FILE_TYPES
    THEN [is_valid |-> FALSE, error_message |-> "File type not allowed"]
    ELSE IF filename = ""
    THEN [is_valid |-> FALSE, error_message |-> "Filename is required"]
    ELSE [is_valid |-> TRUE, error_message |-> ""]

\* A text: the character c repeated n times.
Text(c, n) == [char |-> c, len |-> n]

\* text[:n]
Slice(text, n) == [text EXCEPT !.len = IF text.len < n THEN text.len ELSE n]

\* What extract_text can return and what it or the oracle can raise.
ExtractedTexts == {Text("t", 0), Text("t", 4)}
ExtractionErrors == {"ExtractionError"}
OracleErrors == {"OracleError"}

\* What llm_service.classify_document can return: a dict that may lack keys.
ClassificationResults ==
    { [category_name |-> Some("Governance"), confidence |-> Some(90),
       reasoning |-> Some("r"), suggested_categories |-> Some(<<"Formation">>),
       key_entities |-> Some(<<"Acme">>), summary |-> Some("s")],
      [category_name |-> Some("Tax"), confidence |-> Some(40),
       reasoning |-> Some("r"), suggested_categories |-> Some(<<>>),
       key_entities |-> Some(<<>>), summary |-> Some("s")],
      [summary |-> Some("s")] }

\* models.py Document: a freshly inserted row (DocumentCreate + defaults).
NewDocument(user, file_info) ==
    [ user_id |-> user,
      original_filename |-> file_info.original_filename,
      file_path |-> file_info.file_path,
      file_size |-> file_info.file_size,
      mime_type |-> file_info.mime_type,
      processing_status |-> "pending",
      processing_error |-> None,
      extracted_text |-> None,
      category_id |-> None,
      classification_confidence |-> None,
      classification_reasoning |-> None,
      suggested_categories |-> None,
      key_entities |-> None,
      summary |-> None,
      processed_at |-> None ]

ClassificationFields ==
    { "category_id", "classification_confidence", "classification_reasoning",
      "suggested_categories", "key_entities", "summary" }

VARIABLES
    documents,   \* the documents table: id -> row
    nextId,      \* the table's serial primary key
    storage,     \* the upload directory: the file paths that exist
    nextPath,    \* save_uploaded_file gives every saved file a fresh path
    categories,  \* the document_categories table: id -> name
    jobs,        \* background tasks: job number -> process_document_async run
    bulk,        \* upload_documents_bulk in its loop, or None
    deleting,    \* delete_document awaiting delete_file, or None
    redelivered, \* duplicate job invocations so far
    received,    \* files the bulk uploads have been sent so far
    response     \* the response of the last request, once it has returned

vars == << documents, nextId, storage, nextPath, categories, jobs,
           bulk, deleting, redelivered, received, response >>

Exists(d) == d \in DOMAIN documents

\* db.commit() of a session whose pending assignments touch row d: one
\* UPDATE of exactly the assigned columns.
CommitUpdate(d, pending) == [documents EXCEPT ![d] = pending @@ documents[d]]

\* A lookup that falls back on the first category when none has the name.
CategoryByName_FallsBack(name) ==
    LET hits == { i \in DOMAIN categories : categories[i] = name }
    IN  IF hits = {} THEN Some(1)
        ELSE Some(CHOOSE i \in hits : \A k \in hits : i <= k)

\* The first DocumentCategory row with this name, or None.
CategoryByName(name) ==
    LET hits == { i \in DOMAIN categories : categories[i] = name }
    IN  IF hits = {} THEN None
        ELSE Some(CHOOSE i \in hits : \A k \in hits : i <= k)

\* A delete that leaves the row in the table.
Remove_KeepsRow(f, d) == f

Remove(f, d) == [x \in DOMAIN f \ {d} |-> f[x]]

Init ==
    /\ documents = << >>
    /\ nextId = 1
    /\ storage = {}
    /\ nextPath = 1
    /\ categories = default_categories
    /\ jobs = << >>
    /\ bulk = None
    /\ deleting = None
    /\ redelivered = 0
    /\ received = 0
    /\ response = [kind |-> "none"]

\* ------------------------------------------------- process_document_async
\* background_tasks.add_task(process_document_async, db_document.id, ...)
NewJob(d) ==
    [ doc |-> d, pc |-> "scheduled", pending |-> << >>, hung |-> FALSE,
      outcome |-> "",
      returned |-> {},    \* the awaited calls that have returned in this run
      before |-> << >> ]  \* the row as the run found it

\* A start that leaves the status as it found it.
StartWrite_StatusKept == [extracted_text |-> None]

\* Lines 486-488: the assignment committed before extraction starts.
StartWrite == [processing_status |-> "processing"]

\* Assignments that take what the oracle's dict holds, without defaults.
CompletionWrite_NoDefaults(pending, result) ==
    LET name == Get(result, "category_name", None)
        category == IF Truthy(name) THEN CategoryByName(TheValue(name)) ELSE None
        found == IF category # None THEN [category_id |-> category] ELSE << >>
    IN  [ classification_confidence |-> Get(result, "confidence", None),
          classification_reasoning |-> Get(result, "reasoning", None),
          suggested_categories |-> Get(result, "suggested_categories", None),
          key_entities |-> Get(result, "key_entities", None),
          summary |-> Get(result, "summary", None),
          processing_status |-> "completed",
          processed_at |-> Some("utcnow") ] @@ found @@ pending

\* Lines 499-522: the assignments of a successful run, on top of those the
\* session already holds.
CompletionWrite(pending, result) ==
    LET name == Get(result, "category_name", None)
        category == IF Truthy(name) THEN CategoryByName(TheValue(name)) ELSE None
        found == IF category # None THEN [category_id |-> category] ELSE << >>
    IN  [ classification_confidence |-> Get(result, "confidence", Some(0)),
          classification_reasoning |-> Get(result, "reasoning", None),
          suggested_categories |-> Get(result, "suggested_categories", Some(<< >>)),
          key_entities |-> Get(result, "key_entities", Some(<< >>)),
          summary |-> Get(result, "summary", None),
          processing_status |-> "completed",
          processed_at |-> Some("utcnow") ] @@ found @@ pending

\* An except block that records no message.
FailureWrite_NoMessage(pending, e) == [processing_status |-> "failed"] @@ pending

\* An except block that resets the confidence.
FailureWrite_ResetsConfidence(pending, e) ==
    [ processing_status |-> "failed", processing_error |-> Some(e),
      classification_confidence |-> Some(0) ] @@ pending

\* An except block that writes on a fresh copy of the row: what the run
\* had assigned before is lost.
FailureWrite_DropsPending(pending, e) ==
    [processing_status |-> "failed", processing_error |-> Some(e)]

\* Lines 534-535: the assignments of the except block; what the session
\* already holds is committed with them.
FailureWrite(pending, e) ==
    [processing_status |-> "failed", processing_error |-> Some(e)] @@ pending

\* The run ends (the session is closed): "completed", "failed", "not_found"
\* (line 482), "gone" (the except block found no row) or "stale": a flush
\* matched no row and raised, leaving the session awaiting a rollback that
\* the except block does not issue, so an exception raised inside the
\* except block left the job; nothing was written.
Finish(j, outcome) ==
    [jobs EXCEPT ![j].pc = "done", ![j].outcome = outcome, ![j].pending = << >>,
                 ![j].before = << >>]

\* An except block that records the failure and runs the extraction again.
HandleException_Retries(j, e) ==
    LET d == jobs[j].doc
    IN  IF Exists(d)
        THEN /\ documents' = CommitUpdate(d, FailureWrite(jobs[j].pending, e))
             /\ jobs' = [jobs EXCEPT ![j].pc = "extract_text"]
        ELSE /\ documents' = documents
             /\ jobs' = Finish(j, "gone")

\* Lines 528-539: the except block.  When the row has been deleted, the
\* query of line 531 finds nothing and the block writes nothing ("gone");
\* when the session holds an assignment to that row and flushes before it
\* queries, the flush matches no row and raises out of the block ("stale").
\* Whether it flushes is set where the session is made.
HandleException(j, e) ==
    LET d == jobs[j].doc
    IN  IF Exists(d)
        THEN /\ documents' = CommitUpdate(d, FailureWrite(jobs[j].pending, e))
             /\ jobs' = Finish(j, "failed")
        ELSE /\ documents' = documents
             /\ jobs' \in { Finish(j, "gone") } \cup
                          IF jobs[j].pending = << >> THEN {} ELSE { Finish(j, "stale") }

\* Lines 478-491, up to the await of extract_text.
JobStart(j) ==
    /\ jobs[j].pc = "scheduled"
    /\ LET d == jobs[j].doc
       IN  IF Exists(d)
           THEN /\ documents' = CommitUpdate(d, StartWrite)
                /\ jobs' = [jobs EXCEPT ![j].pc = "extract_text",
                                        ![j].before = documents[d]]
           ELSE /\ documents' = documents
                /\ jobs' = Finish(j, "not_found")
    /\ UNCHANGED << nextId, storage, nextPath, categories, bulk,
                    deleting, redelivered, received, response >>

\* An extraction result committed as soon as extract_text returns.
ExtractReturns_CommitsText(j, text) ==
    /\ jobs[j].pc = "extract_text" /\ ~jobs[j].hung
    /\ jobs' = [jobs EXCEPT ![j].pc = "classify_document",
                            ![j].returned = {"extract_text"}]
    /\ documents' = IF Exists(jobs[j].doc)
                    THEN CommitUpdate(jobs[j].doc, [extracted_text |-> Some(text)])
                    ELSE documents
    /\ UNCHANGED << nextId, storage, nextPath, categories,
                    bulk, deleting, redelivered, received, response >>

\* extract_text returns: lines 492-495, up to the await of classify_document.
ExtractReturns(j, text) ==
    /\ jobs[j].pc = "extract_text" /\ ~jobs[j].hung
    /\ jobs' = [jobs EXCEPT ![j].pc = "classify_document",
                            ![j].returned = {"extract_text"},
                            ![j].pending = [extracted_text |-> Some(text)]]
    /\ UNCHANGED << documents, nextId, storage, nextPath, categories,
                    bulk, deleting, redelivered, received, response >>

\* An extraction error that is swallowed: the run goes on to classify.
ExtractRaises_Swallowed(j, e) ==
    /\ jobs[j].pc = "extract_text" /\ ~jobs[j].hung
    /\ jobs' = [jobs EXCEPT ![j].pc = "classify_document"]
    /\ UNCHANGED << documents, nextId, storage, nextPath, categories,
                    bulk, deleting, redelivered, received, response >>

\* extract_text raises.
ExtractRaises(j, e) ==
    /\ jobs[j].pc = "extract_text" /\ ~jobs[j].hung
    /\ HandleException(j, e)
    /\ UNCHANGED << nextId, storage, nextPath, categories, bulk,
                    deleting, redelivered, received, response >>

\* classify_document returns: lines 499-526.  The commit of a row that was
\* deleted meanwhile raises (no row matched); the except block cannot
\* query on the session the failed flush left behind, and the run ends with
\* that exception ("stale").
ClassifyReturns(j, result) ==
    /\ jobs[j].pc = "classify_document" /\ ~jobs[j].hung
    /\ LET d == jobs[j].doc
       IN  IF Exists(d)
           THEN /\ documents' = CommitUpdate(d, CompletionWrite(jobs[j].pending, result))
                /\ jobs' = [Finish(j, "completed") EXCEPT
                                ![j].returned = @ \cup {"classify_document"}]
           ELSE /\ documents' = documents
                /\ jobs' = [Finish(j, "stale") EXCEPT
                                ![j].returned = @ \cup {"classify_document"}]
    /\ UNCHANGED << nextId, storage, nextPath, categories, bulk,
                    deleting, redelivered, received, response >>

\* classify_document raises.
ClassifyRaises(j, e) ==
    /\ jobs[j].pc = "classify_document" /\ ~jobs[j].hung
    /\ HandleException(j, e)
    /\ UNCHANGED << nextId, storage, nextPath, categories, bulk,
                    deleting, redelivered, received, response >>

\* The awaited call never returns: nothing in the job bounds the await.
CallNeverReturns(j) ==
    /\ jobs[j].pc \in {"extract_text", "classify_document"} /\ ~jobs[j].hung
    /\ jobs' = [jobs EXCEPT ![j].hung = TRUE]
    /\ UNCHANGED << documents, nextId, storage, nextPath, categories,
                    bulk, deleting, redelivered, received, response >>

\* ---------------------------------------------------------------- uploads
\* A handler's code before its first write to the table or the upload
\* directory reads only its own request, so it is taken together with the
\* step that follows the await: one action per file.

\* save_uploaded_file: the file_info of a file written under a fresh path.
FileInfo(file, path) ==
    [ original_filename |-> file.filename, file_path |-> path,
      file_size |-> file.size, mime_type |-> file.content_type ]

\* A validation step that lets every file through.
Validate_AcceptsAll(file) == [is_valid |-> TRUE, error_message |-> ""]

\* Lines 59-61, 115-117.
Validate(file) == validate_file(file.filename, file.size, file.content_type)

\* Files the bulk upload in flight may still save (keeps nextPath within
\* MaxDocs).
InFlightFiles ==
    IF bulk = None THEN 0
    ELSE LET b == TheValue(bulk)
         IN  Cardinality({ k \in b.i..Len(b.files) : Validate(b.files[k]).is_valid })

\* A handler that schedules the job before it commits the row.
Persist_SchedulesBeforeCommit(user, file, fails) ==
    CASE fails \in {"read", "save"} ->
           UNCHANGED << documents, nextId, jobs, storage, nextPath >>
      [] fails = "commit" ->
           /\ storage' = storage \cup {nextPath}
           /\ nextPath' = nextPath + 1
           /\ jobs' = Append(jobs, NewJob(nextId))
           /\ UNCHANGED << documents, nextId >>
      [] OTHER ->
           /\ storage' = storage \cup {nextPath}
           /\ nextPath' = nextPath + 1
           /\ documents' = (nextId :> NewDocument(user, FileInfo(file, nextPath)))
                           @@ documents
           /\ nextId' = nextId + 1
           /\ jobs' = Append(jobs, NewJob(nextId))

\* Lines 66-86 and 125-148 for one valid file: save it, insert and commit
\* the row, refresh it, schedule its job.  `fails` names the step that
\* raises: what was done before it stays done.
Persist(user, file, fails) ==
    CASE fails \in {"read", "save"} ->
           UNCHANGED << documents, nextId, jobs, storage, nextPath >>
      [] fails \in {"commit", "pending_rollback"} ->
           /\ storage' = storage \cup {nextPath}
           /\ nextPath' = nextPath + 1
           /\ UNCHANGED << documents, nextId, jobs >>
      [] fails = "refresh" ->
           /\ storage' = storage \cup {nextPath}
           /\ nextPath' = nextPath + 1
           /\ documents' = (nextId :> NewDocument(user, FileInfo(file, nextPath)))
                           @@ documents
           /\ nextId' = nextId + 1
           /\ UNCHANGED jobs
      [] OTHER ->
           /\ storage' = storage \cup {nextPath}
           /\ nextPath' = nextPath + 1
           /\ documents' = (nextId :> NewDocument(user, FileInfo(file, nextPath)))
                           @@ documents
           /\ nextId' = nextId + 1
           /\ jobs' = Append(jobs, NewJob(nextId))

\* str(e) of the exception a failing step raises.
ErrorOf(fails) ==
    CASE fails = "read" -> "read failed"
      [] fails = "save" -> "save failed"
      [] fails = "commit" -> "commit failed"
      [] fails = "refresh" -> "refresh failed"
      [] fails = "pending_rollback" -> "rollback pending"
      [] OTHER -> ""

\* upload_document.  The HTTPException(400) of a rejected file is caught by
\* the handler's own `except Exception` and leaves as a 500; `detail` is the
\* reason carried inside its "Upload failed: ..." text.
UploadDocument(user, file, fails) ==
    /\ LET v == Validate(file)
       IN  IF fails # "read" /\ ~v.is_valid
           THEN /\ response' = [kind |-> "upload", code |-> 500,
                                detail |-> v.error_message]
                /\ UNCHANGED << documents, nextId, jobs, storage, nextPath >>
           ELSE /\ fails \in {"read", "save"} \/ nextPath + InFlightFiles <= MaxDocs
                /\ Persist(user, file, fails)
                /\ response' = IF fails = "none"
                               THEN [kind |-> "upload", code |-> 200,
                                     document_id |-> nextId]
                               ELSE [kind |-> "upload", code |-> 500,
                                     detail |-> ErrorOf(fails)]
    /\ UNCHANGED << categories, bulk, deleting, redelivered, received >>

\* upload_documents_bulk, lines 104-108: the empty result lists.
UploadDocumentsBulk(user, files, cap) ==
    /\ bulk = None
    /\ received + Len(files) <= cap
    /\ received' = received + Len(files)
    /\ bulk' = Some([ user |-> user, files |-> files, i |-> 1,
                      uploaded_files |-> << >>, failed_files |-> << >>,
                      processing_jobs |-> << >>, inactive |-> FALSE ])
    /\ response' = [kind |-> "none"]
    /\ UNCHANGED << documents, nextId, storage, nextPath, categories, jobs,
                    deleting, redelivered >>

\* Lines 154-161.
BulkUploadResponse(b) ==
    [ kind |-> "bulk", code |-> 200, files |-> b.files,
      uploaded_files |-> b.uploaded_files,
      failed_files |-> b.failed_files,
      processing_jobs |-> b.processing_jobs,
      total_files |-> Len(b.files),
      success_count |-> Len(b.uploaded_files),
      failure_count |-> Len(b.failed_files) ]

\* A loop that returns at the first failed file.
BulkAdvance_StopsAtFailure(b) ==
    IF b.i < Len(b.files) /\ b.failed_files = << >>
    THEN /\ bulk' = Some([b EXCEPT !.i = b.i + 1])
         /\ response' = response
    ELSE /\ bulk' = None
         /\ response' = BulkUploadResponse(b)

\* The loop moves to the next file, or returns after the last one.
BulkAdvance(b) ==
    IF b.i < Len(b.files)
    THEN /\ bulk' = Some([b EXCEPT !.i = b.i + 1])
         /\ response' = response
    ELSE /\ bulk' = None
         /\ response' = BulkUploadResponse(b)

\* A failed list that keeps only its latest entry.
BulkFailed_KeepsLast(b, filename, error) ==
    [b EXCEPT !.failed_files = << [filename |-> filename, error |-> error] >>]

\* A failed list with the latest failure first.
BulkFailed_Prepends(b, filename, error) ==
    [b EXCEPT !.failed_files = << [filename |-> filename, error |-> error] >> \o @]

\* Lines 119-123 and 150-152: the file is listed as failed.
BulkFailed(b, filename, error) ==
    [b EXCEPT !.failed_files = Append(@, [filename |-> filename, error |-> error])]

\* A file listed as uploaded without its document id.
BulkUploaded_WithoutJob(b, filename, id) ==
    [b EXCEPT !.uploaded_files = Append(@, filename)]

\* Lines 138-139: the file is listed as uploaded, its document id as a job.
BulkUploaded(b, filename, id) ==
    [b EXCEPT !.uploaded_files = Append(@, filename),
              !.processing_jobs = Append(@, id)]

\* upload_documents_bulk, lines 109-152: one iteration of the loop.  The
\* loop uses the request's one session and its except block does not roll
\* back: once a commit has raised, the session refuses every later commit
\* of the request ("rollback pending"), after the file has been saved.
BulkFile(fails) ==
    /\ bulk # None
    /\ LET b == TheValue(bulk)
           file == b.files[b.i]
           v == Validate(file)
           step == IF b.inactive /\ fails \notin {"read", "save"}
                   THEN "pending_rollback" ELSE fails
           after == [b EXCEPT !.inactive = @ \/ step = "commit"]
       IN  IF fails # "read" /\ ~v.is_valid
           THEN /\ BulkAdvance(BulkFailed(b, file.filename, v.error_message))
                /\ UNCHANGED << documents, nextId, jobs, storage, nextPath >>
           ELSE /\ Persist(b.user, file, step)
                /\ BulkAdvance(IF step = "none"
                               THEN BulkUploaded(after, file.filename, nextId)
                               ELSE BulkFailed(after, file.filename, ErrorOf(step)))
    /\ UNCHANGED << categories, deleting, redelivered, received >>

\* ------------------------------------------------------- status and delete
\* Lines 229-233, 447-451: the row with this id owned by the requester.
OwnedBy(user, d) == Exists(d) /\ documents[d].user_id = user

\* A progress that keeps the half of a started run when the run fails.
progress_map_KeepsHalf(status) ==
    CASE status = "pending" -> 0
      [] status = "processing" -> 50
      [] status = "completed" -> 100
      [] status = "failed" -> 50
      [] OTHER -> 0

\* Lines 239-244 and progress_map.get(status, 0.0) of line 261: progress in
\* percent, 0, 50 and 100 standing for 0.0, 0.5 and 1.0.
progress_map(status) ==
    CASE status = "pending" -> 0
      [] status = "processing" -> 50
      [] status = "completed" -> 100
      [] status = "failed" -> 0
      [] OTHER -> 0

\* A status that reports a classification for every completed row.
StatusOf_AnyCompleted(d) ==
    LET doc == documents[d]
    IN  [ kind |-> "status", code |-> 200, document_id |-> d,
          status |-> doc.processing_status,
          progress |-> progress_map(doc.processing_status),
          error_message |-> doc.processing_error,
          classification_result |->
              IF doc.processing_status = "completed"
              THEN Some([ category_id |-> doc.category_id,
                          category_name |-> IF doc.category_id = None
                                            THEN "Uncategorized"
                                            ELSE categories[TheValue(doc.category_id)],
                          confidence |-> doc.classification_confidence,
                          reasoning |-> doc.classification_reasoning,
                          suggested_categories |-> doc.suggested_categories,
                          key_entities |-> doc.key_entities,
                          summary |-> doc.summary ])
              ELSE None ]

\* Lines 246-264: the DocumentProcessingStatus of a row.
StatusOf(d) ==
    LET doc == documents[d]
        classified == doc.processing_status = "completed" /\ doc.category_id # None
    IN  [ kind |-> "status", code |-> 200, document_id |-> d,
          status |-> doc.processing_status,
          progress |-> progress_map(doc.processing_status),
          error_message |-> doc.processing_error,
          classification_result |->
              IF classified
              THEN Some([ category_id |-> doc.category_id,
                          category_name |-> categories[TheValue(doc.category_id)],
                          confidence |-> IF doc.classification_confidence \in {None, Some(0)}
                                         THEN Some(0)
                                         ELSE doc.classification_confidence,
                          reasoning |-> doc.classification_reasoning,
                          suggested_categories |-> doc.suggested_categories,
                          key_entities |-> doc.key_entities,
                          summary |-> doc.summary ])
              ELSE None ]

\* get_document_status (and get_document: the same row read in one query).
GetDocumentStatus(user, d) ==
    /\ response' = IF OwnedBy(user, d)
                   THEN StatusOf(d)
                   ELSE [kind |-> "status", code |-> 404, document_id |-> d]
    /\ UNCHANGED << documents, nextId, storage, nextPath, categories, jobs,
                    bulk, deleting, redelivered, received >>

\* delete_document, lines 446-457: up to the await of delete_file, which
\* removes the stored file or raises.
DeleteDocument(user, d, fileFails) ==
    /\ deleting = None
    /\ IF ~OwnedBy(user, d)
       THEN /\ response' = [kind |-> "delete", code |-> 404, document_id |-> d]
            /\ UNCHANGED << storage, deleting >>
       ELSE IF fileFails
       THEN /\ response' = [kind |-> "delete", code |-> 500, document_id |-> d]
            /\ UNCHANGED << storage, deleting >>
       ELSE /\ storage' = storage \ {documents[d].file_path}
            /\ deleting' = Some(d)
            /\ response' = response
    /\ UNCHANGED << documents, nextId, nextPath, categories, jobs, bulk,
                    redelivered, received >>

\* delete_document, lines 459-469: db.delete and the commit, which may fail.
DeleteDocumentCommit(commitFails) ==
    /\ deleting # None
    /\ LET d == TheValue(deleting)
       IN  IF commitFails
           THEN /\ response' = [kind |-> "delete", code |-> 500, document_id |-> d]
                /\ documents' = documents
           ELSE /\ response' = [kind |-> "delete", code |-> 200, document_id |-> d]
                /\ documents' = Remove(documents, d)
    /\ deleting' = None
    /\ UNCHANGED << nextId, storage, nextPath, categories, jobs, bulk,
                    redelivered, received >>

\* ------------------------------------------------------------------ query
\* Line 310: documents[:5].
CONTEXT_DOCS == 5
\* Line 313: extracted_text[:2000].
CONTEXT_CHARS == 2000

\* Python truthiness of an optional list.
ListGiven(o) == o # None /\ o # Some(<< >>)

Members(o) == { TheValue(o)[k] : k \in DOMAIN TheValue(o) }

\* A selection that takes the requester's documents in any status.
Matching_AnyStatus(user, request) ==
    { d \in DOMAIN documents :
        /\ documents[d].user_id = user
        /\ ListGiven(request.document_ids) => d \in Members(request.document_ids)
        /\ ListGiven(request.category_ids) =>
               /\ documents[d].category_id # None
               /\ TheValue(documents[d].category_id) \in Members(request.category_ids) }

\* A selection that takes the completed documents of every user.
Matching_AnyOwner(user, request) ==
    { d \in DOMAIN documents :
        /\ documents[d].processing_status = "completed"
        /\ ListGiven(request.document_ids) => d \in Members(request.document_ids)
        /\ ListGiven(request.category_ids) =>
               /\ documents[d].category_id # None
               /\ TheValue(documents[d].category_id) \in Members(request.category_ids) }

\* Lines 282-295: the requester's completed documents, narrowed by the
\* filters that are given and non-empty.  NULL is in no list.
Matching(user, request) ==
    { d \in DOMAIN documents :
        /\ documents[d].user_id = user
        /\ documents[d].processing_status = "completed"
        /\ ListGiven(request.document_ids) => d \in Members(request.document_ids)
        /\ ListGiven(request.category_ids) =>
               /\ documents[d].category_id # None
               /\ TheValue(documents[d].category_id) \in Members(request.category_ids) }

\* query.all() has no ORDER BY: the rows come in an order the database
\* chooses, here by ascending or by descending id.
RECURSIVE InOrder(_, _)
InOrder(ids, order) ==
    IF ids = {} THEN << >>
    ELSE LET d == IF order = "asc"
                  THEN CHOOSE x \in ids : \A y \in ids : x <= y
                  ELSE CHOOSE x \in ids : \A y \in ids : x >= y
         IN  << d >> \o InOrder(ids \ {d}, order)

\* Lines 297-304: the answer when no document matches.
NoDocumentsResponse ==
    [ response |-> "No documents found to query. Please upload and process documents first.",
      confidence_score |-> Some(0),
      source_documents |-> << >>,
      reasoning |-> Some("No documents available for analysis") ]

\* Lines 314-322: the citation of a document.
SourceDoc(d) ==
    [ id |-> d, filename |-> documents[d].original_filename,
      category |-> IF documents[d].category_id # None
                   THEN categories[TheValue(documents[d].category_id)]
                   ELSE "Uncategorized" ]

\* A loop that cites every document it looks at.
RECURSIVE Context_CitesAll(_)
Context_CitesAll(docs) ==
    IF docs = << >> THEN [context_chunks |-> << >>, source_docs |-> << >>]
    ELSE LET d == docs[Len(docs)]
             rest == Context_CitesAll(SubSeq(docs, 1, Len(docs) - 1))
             text == documents[d].extracted_text
         IN  [ context_chunks |->
                   IF text # None /\ TheValue(text).len > 0
                   THEN Append(rest.context_chunks, Slice(TheValue(text), CONTEXT_CHARS))
                   ELSE rest.context_chunks,
               source_docs |-> Append(rest.source_docs, SourceDoc(d)) ]

\* Lines 306-322: the loop over the documents taken as context; a document
\* without text (NULL or empty) is skipped.
RECURSIVE Context(_)
Context(docs) ==
    IF docs = << >> THEN [context_chunks |-> << >>, source_docs |-> << >>]
    ELSE LET d == docs[Len(docs)]
             rest == Context(SubSeq(docs, 1, Len(docs) - 1))
             text == documents[d].extracted_text
         IN  IF text # None /\ TheValue(text).len > 0
             THEN [ context_chunks |->
                        Append(rest.context_chunks, Slice(TheValue(text), CONTEXT_CHARS)),
                    source_docs |-> Append(rest.source_docs, SourceDoc(d)) ]
             ELSE rest

\* A selection that takes every matching document.
ContextDocs_Uncapped(docs) == docs

\* A selection that passes over the documents without text and takes the
\* first five of the others.
ContextDocs_WithTextOnly(docs) ==
    LET with == SelectSeq(docs, LAMBDA d : /\ documents[d].extracted_text # None
                                            /\ TheValue(documents[d].extracted_text).len > 0)
    IN  SubSeq(with, 1, IF Len(with) < CONTEXT_DOCS THEN Len(with) ELSE CONTEXT_DOCS)

\* Line 310: documents[:5].
ContextDocs(docs) ==
    SubSeq(docs, 1, IF Len(docs) < CONTEXT_DOCS THEN Len(docs) ELSE CONTEXT_DOCS)

\* A mapping that passes on what the oracle's dict holds, without defaults.
QueryResponse_NoDefaults(llm_response, source_docs) ==
    [ response |-> Get(llm_response, "answer", None),
      confidence_score |-> Get(llm_response, "confidence", None),
      source_documents |-> source_docs,
      reasoning |-> Get(llm_response, "reasoning", None),
      suggestions |-> Get(llm_response, "suggestions", None) ]

\* Lines 329-336: the oracle's dict mapped into the QueryResponse.
QueryResponse(llm_response, source_docs) ==
    [ response |-> Get(llm_response, "answer", Some("No response generated")),
      confidence_score |-> Get(llm_response, "confidence", Some(0)),
      source_documents |-> source_docs,
      reasoning |-> Get(llm_response, "reasoning", None),
      suggestions |-> Get(llm_response, "suggestions", Some(<< >>)) ]

\* What llm_service.query_documents can return: a dict that may lack keys.
QueryOracleResponses ==
    { [answer |-> Some("a"), confidence |-> Some(80), reasoning |-> Some("r"),
       suggestions |-> Some(<< "q" >>)],
      [answer |-> Some("a")],
      [reasoning |-> Some("r")] }

\* query_documents.  The code after the await of the oracle uses only the
\* handler's locals, so the handler is one step.  `asked`, `oracle_context`
\* and `oracle_returned` record the request, what the oracle was called with
\* (None: not called) and what it returned; oracle = None stands for an
\* oracle call that raises.
QueryDocuments(user, request, order, oracle) ==
    /\ LET asked == [user |-> user, document_ids |-> request.document_ids,
                     category_ids |-> request.category_ids]
           found == InOrder(Matching(user, request), order)
           used == Context(ContextDocs(found))
       IN  response' =
             IF found = << >>
             THEN [kind |-> "query", code |-> 200, asked |-> asked,
                   oracle_context |-> None] @@ NoDocumentsResponse
             ELSE IF oracle = None
             THEN [kind |-> "query", code |-> 500, asked |-> asked,
                   oracle_context |-> Some(used.context_chunks),
                   oracle_returned |-> None]
             ELSE [kind |-> "query", code |-> 200, asked |-> asked,
                   oracle_context |-> Some(used.context_chunks),
                   oracle_returned |-> oracle]
                  @@ QueryResponse(TheValue(oracle), used.source_docs)
    /\ UNCHANGED << documents, nextId, storage, nextPath, categories, jobs,
                    bulk, deleting, redelivered, received >>

\* ------------------------------------------------------------- scheduling
\* A scheduler with at-least-once delivery invokes process_document_async
\* again for a document it has already been invoked for.
Redeliver(j) ==
    /\ redelivered < MaxRedeliver
    /\ redelivered' = redelivered + 1
    /\ jobs' = Append(jobs, NewJob(jobs[j].doc))
    /\ UNCHANGED << documents, nextId, storage, nextPath, categories,
                    bulk, deleting, received, response >>

Batches == UNION { [1..n -> BulkFiles] : n \in 1..MaxBatch }
DocIds == 1..MaxDocs
Failures == {"none", "read", "save", "commit", "refresh"}

JobStep ==
    \E j \in DOMAIN jobs :
        \/ JobStart(j)
        \/ \E text \in ExtractedTexts : ExtractReturns(j, text)
        \/ \E e \in ExtractionErrors : ExtractRaises(j, e)
        \/ \E result \in ClassificationResults : ClassifyReturns(j, result)
        \/ \E e \in OracleErrors : ClassifyRaises(j, e)

Upload == \E u \in Users, f \in UploadFiles, x \in Failures : UploadDocument(u, f, x)
Status == \E u \in Users, d \in DocIds : GetDocumentStatus(u, d)
Delete ==
    \/ \E u \in Users, d \in DocIds, x \in BOOLEAN : DeleteDocument(u, d, x)
    \/ \E x \in BOOLEAN : DeleteDocumentCommit(x)
\* Bulk uploads of at most cap files in all.
Bulk(cap) ==
    \/ \E u \in Users, fs \in Batches : UploadDocumentsBulk(u, fs, cap)
    \/ \E x \in Failures : BulkFile(x)
Hang == \E j \in DOMAIN jobs : CallNeverReturns(j)

Next == Upload \/ Status \/ Delete \/ JobStep

\* The program: every upload schedules one job for its document.
Spec == Init /\ [][Next]_vars

\* A scheduler that may invoke a job twice.
NextRedeliver == Next \/ \E j \in DOMAIN jobs : Redeliver(j)
SpecRedeliver == Init /\ [][NextRedeliver]_vars

\* Awaited calls that may never return.  The event loop runs every job
\* step that is ready; requests and hangs are up to the environment.
NextHang == Next \/ Hang
SpecHang == Init /\ [][NextHang]_vars /\ WF_vars(JobStep)

\* The bulk upload handler alone: the jobs it schedules have not started.
NextBulk == Bulk(MaxBatch)
SpecBulk == Init /\ [][NextBulk]_vars

\* Both upload handlers, interleaved, with shorter batches.
\* Bulk uploads whose jobs run, in any order, during and after the request
\* (the jobs of one request run one after the other; jobs of different
\* requests interleave).
NextBulkJobs == Bulk(MaxOrdered) \/ JobStep
SpecBulkJobs == Init /\ [][NextBulkJobs]_vars

NextUpload == Upload \/ Bulk(MaxDocs)
SpecUpload == Init /\ [][NextUpload]_vars

\* ----------------------------------------------------- tables for queries
\* query_documents only reads.  It is run against every table of a family
\* of tables the uploads and jobs above can leave behind: each row is a
\* NewDocument with the writes of the job steps it has been through, the
\* text of document d being made of the character d.
MaxMixed == 2      \* rows of a table of mixed owners and statuses
MaxBeyondCap == 1  \* rows beyond CONTEXT_DOCS of a table of one owner

QueryFile == [filename |-> "a.pdf", size |-> 1, content_type |-> "application/pdf"]

Governance == CHOOSE r \in ClassificationResults : Get(r, "category_name", None) = Some("Governance")
Tax == CHOOSE r \in ClassificationResults : Get(r, "category_name", None) = Some("Tax")

MixedKinds ==
    { [user |-> u, status |-> st, len |-> 1, result |-> Tax] :
        u \in Users, st \in {"pending", "processing", "failed"} }
    \cup { [user |-> u, status |-> "completed", len |-> n, result |-> r] :
             u \in Users, n \in {0, 1}, r \in {Governance, Tax} }

LongKinds ==
    { [user |-> 1, status |-> "completed", len |-> n, result |-> Governance] :
        n \in {0, CONTEXT_CHARS, CONTEXT_CHARS + 1} }

\* Row d after the job steps that lead to kind.status.
RowOf(d, kind) ==
    LET new == NewDocument(kind.user, FileInfo(QueryFile, d))
        text == [extracted_text |-> Some(Text(d, kind.len))]
    IN  CASE kind.status = "pending" -> new
          [] kind.status = "processing" -> StartWrite @@ new
          [] kind.status = "failed" -> FailureWrite(text, "OracleError") @@ new
          [] OTHER -> CompletionWrite(text, kind.result) @@ new

\* The run of process_document_async that left row d like that.
JobOf(d, kind) ==
    CASE kind.status = "pending" -> NewJob(d)
      [] kind.status = "processing" ->
           [NewJob(d) EXCEPT !.pc = "extract_text",
                             !.before = NewDocument(kind.user, FileInfo(QueryFile, d))]
      [] kind.status = "failed" ->
           [NewJob(d) EXCEPT !.pc = "done", !.outcome = "failed",
                             !.returned = {"extract_text"}]
      [] OTHER ->
           [NewJob(d) EXCEPT !.pc = "done", !.outcome = "completed",
                             !.returned = {"extract_text", "classify_document"}]

QueryTables ==
    [1..MaxMixed -> MixedKinds] \cup [1..(CONTEXT_DOCS + MaxBeyondCap) -> LongKinds]

InitQuery ==
    /\ categories = default_categories
    /\ \E kinds \in QueryTables :
         /\ documents = [d \in DOMAIN kinds |-> RowOf(d, kinds[d])]
         /\ jobs = [d \in DOMAIN kinds |-> JobOf(d, kinds[d])]
         /\ nextId = Len(kinds) + 1
         /\ nextPath = Len(kinds) + 1
         /\ storage = DOMAIN kinds
    /\ bulk = None
    /\ deleting = None
    /\ redelivered = 0
    /\ received = 0
    /\ response = [kind |-> "none"]

\* QueryRequest: optional lists of document ids and of category ids.
QueryRequests ==
    [ document_ids : {None, Some(<< >>), Some(<< 1 >>), Some(<< 2, 3 >>)},
      category_ids : {None, Some(<< >>), Some(<< 2 >>)} ]

\* One query per table: a query changes no table, so a second one would
\* see what the first saw.
Query ==
    /\ response.kind = "none"
    /\ \E u \in Users, r \in QueryRequests, o \in {"asc", "desc"},
          a \in {None} \cup { Some(x) : x \in QueryOracleResponses } :
         QueryDocuments(u, r, o, a)

NextQuery == Query
SpecQuery == InitQuery /\ [][NextQuery]_vars

\* ---------------------------------------------------------------- seeding
\* init_data.py.  The names a DocumentCategory table may hold before a run:
\* the default names and one that is not a default.
CategoryNames == { default_categories[i] : i \in DOMAIN default_categories } \cup {"Custom"}

\* The names of a set as a table, rows in a fixed order of insertion.
RECURSIVE TableOf(_, _)
TableOf(names, order) ==
    IF order = << >> THEN << >>
    ELSE IF Head(order) \in names
         THEN << Head(order) >> \o TableOf(names, Tail(order))
         ELSE TableOf(names, Tail(order))

\* The tables a run may find: any set of names, each on one row
\* (DocumentCategory.name is unique, models.py lines 45-46).
SeedTables ==
    { TableOf(names, << "Custom" >> \o default_categories) : names \in SUBSET CategoryNames }

\* A check that never finds a row.
existing_category_NotFound(table, name) == None

\* Lines 124-128: the first row with this name, or None.
existing_category(table, name) ==
    LET hits == { i \in DOMAIN table : table[i] = name }
    IN  IF hits = {} THEN None
        ELSE Some(CHOOSE i \in hits : \A k \in hits : i <= k)

\* Lines 122-139: the rows the loop adds, in the order of default_categories.
RECURSIVE Created(_, _)
Created(table, names) ==
    IF names = << >> THEN << >>
    ELSE IF existing_category(table, Head(names)) = None
         THEN << Head(names) >> \o Created(Append(table, Head(names)), Tail(names))
         ELSE Created(table, Tail(names))

\* init_db_data: one run of init_document_categories, its single commit
\* (line 141) either writing every added row or, on an error, none
\* (rollback, lines 152-155).
InitDocumentCategories(commitFails) ==
    LET created == Created(categories, default_categories)
    IN  /\ categories' = IF commitFails THEN categories ELSE categories \o created
        /\ response' = [ kind |-> "seed", code |-> IF commitFails THEN 500 ELSE 200,
                         created |-> IF commitFails THEN << >> ELSE created ]
        /\ UNCHANGED << documents, nextId, storage, nextPath, jobs, bulk,
                        deleting, redelivered, received >>

InitSeed ==
    /\ documents = << >>
    /\ nextId = 1
    /\ storage = {}
    /\ nextPath = 1
    /\ categories \in SeedTables
    /\ jobs = << >>
    /\ bulk = None
    /\ deleting = None
    /\ redelivered = 0
    /\ received = 0
    /\ response = [kind |-> "none"]

NextSeed == \E commitFails \in BOOLEAN : InitDocumentCategories(commitFails)
\* The startup seeding, run any number of times on any table.
SpecSeed == InitSeed /\ [][NextSeed]_vars

\* ------------------------------------------------------------------ claims
StatusIn(d) == documents[d].processing_status
JobsOf(d) == { j \in DOMAIN jobs : jobs[j].doc = d }
Running(j) == jobs[j].pc \in {"extract_text", "classify_document"}
Transitions ==
    { << "pending", "processing" >>, << "processing", "completed" >>,
      << "processing", "failed" >> }

\* C1: every change of a document's processing_status is pending ->
\* processing, processing -> completed or processing -> failed; a completed
\* or failed document never changes status again.
C1_StatusPath ==
    [][ \A d \in DOMAIN documents \cap DOMAIN documents' :
          documents'[d].processing_status # StatusIn(d)
          => << StatusIn(d), documents'[d].processing_status >> \in Transitions ]_vars

\* A document has failed, another read has seen it, and its job is over.
C1_Witness ==
    \E d \in DOMAIN documents :
        /\ StatusIn(d) = "failed"
        /\ \A j \in JobsOf(d) : jobs[j].pc = "done"
        /\ response = [kind |-> "delete", code |-> 404, document_id |-> d]

\* A run that has written to the row or called extraction.
Worked(j) == Running(j) \/ jobs[j].outcome \in {"completed", "failed", "gone", "stale"}

\* C2: of two runs of process_document_async for the same document at most
\* one moves it to processing and extracts or classifies; the other is a
\* no-op, so at most one run holds the processing status at a time.
C2_OneRunPerDocument ==
    \A j1, j2 \in DOMAIN jobs :
        (jobs[j1].doc = jobs[j2].doc /\ Worked(j1) /\ Worked(j2)) => j1 = j2

\* The values a completed row holds, given what the oracle returned.
WrittenFrom(doc, result) ==
    /\ doc.classification_confidence = Get(result, "confidence", Some(0))
    /\ doc.classification_reasoning = Get(result, "reasoning", None)
    /\ doc.suggested_categories = Get(result, "suggested_categories", Some(<< >>))
    /\ doc.key_entities = Get(result, "key_entities", Some(<< >>))
    /\ doc.summary = Get(result, "summary", None)
    /\ doc.processed_at # None

\* C3: a completed document has no processing_error, and its classification
\* fields and processed_at were written from the result of exactly one
\* oracle call that returned, made after extraction had returned in that run.
C3_CompletedFromOneOracleCall ==
    \A d \in DOMAIN documents :
        StatusIn(d) = "completed" =>
            /\ documents[d].processing_error = None
            /\ \E result \in ClassificationResults : WrittenFrom(documents[d], result)
            /\ Cardinality({ j \in JobsOf(d) : "classify_document" \in jobs[j].returned }) = 1
            /\ \A j \in JobsOf(d) :
                   "classify_document" \in jobs[j].returned
                   => "extract_text" \in jobs[j].returned

C3_Witness ==
    \E d \in DOMAIN documents :
        /\ StatusIn(d) = "completed"
        /\ documents[d].category_id = Some(2)
        /\ \E j \in JobsOf(d) : jobs[j].outcome = "completed"

Unprocessed(doc) ==
    /\ doc.extracted_text = None
    /\ doc.processed_at = None
    /\ \A f \in ClassificationFields : doc[f] = None

\* C4: the table a read sees holds, for every document, either the row as
\* it was before the processing -> completed update (no extracted text, no
\* classification field, no processed_at) or the whole row after it.
C4_CompletionIsAtomic ==
    \A d \in DOMAIN documents :
        /\ StatusIn(d) \in {"pending", "processing"} => Unprocessed(documents[d])
        /\ StatusIn(d) = "completed" =>
               /\ documents[d].extracted_text # None
               /\ \E result \in ClassificationResults : WrittenFrom(documents[d], result)

\* A status read returned "processing" while the job holds extracted text
\* it has not committed.
C4_Witness ==
    \E j \in DOMAIN jobs :
        /\ jobs[j].pc = "classify_document"
        /\ jobs[j].pending # << >>
        /\ response.kind = "status" /\ response.code = 200
        /\ response.document_id = jobs[j].doc
        /\ response.status = "processing"

C6_FailureLeavesClassification ==
    [][ \A j \in DOMAIN jobs :
          LET d == jobs[j].doc
          IN  (jobs[j].pc # "done" /\ jobs'[j].pc = "done"
               /\ jobs'[j].outcome = "failed")
              => /\ d \in DOMAIN documents'
                 /\ \A f \in ClassificationFields :
                        documents'[d][f] = jobs[j].before[f] ]_vars

\* Extraction raised: the run ended in failed with nothing extracted.
C6_Witness ==
    \E j \in DOMAIN jobs :
        /\ jobs[j].outcome = "failed"
        /\ jobs[j].returned = {}
        /\ documents[jobs[j].doc].processing_error = Some("ExtractionError")
        /\ \A f \in ClassificationFields : documents[jobs[j].doc][f] = None

\* C7: if extraction or the oracle call never returns, the job does not
\* hang: its document eventually leaves processing and reaches failed (or is
\* deleted by its owner).
C7_HungCallEndsInFailed ==
    \A d \in DocIds :
        (Exists(d) /\ \E j \in JobsOf(d) : jobs[j].hung)
        ~> (~Exists(d) \/ StatusIn(d) = "failed")

\* The reasons validate_file gives for rejecting a file.
ValidationMessages ==
    { validate_file(f.filename, f.size, f.content_type).error_message :
        f \in { g \in UploadFiles \cup BulkFiles :
                  ~validate_file(g.filename, g.size, g.content_type).is_valid } }

IsValid(file) == validate_file(file.filename, file.size, file.content_type).is_valid

\* The positions of a batch whose file fails validation.
InvalidIn(files) == { k \in 1..Len(files) : ~IsValid(files[k]) }

\* C8: a bulk upload of N files of which K fail validation, no other step
\* failing, reports total_files = N, success_count + failure_count = N and
\* failure_count = K, and each valid file, wherever it stands in the batch,
\* has its own document row, stored file and one scheduled job.
C8_BulkCounts ==
    (/\ response.kind = "bulk"
     /\ \A k \in 1..Len(response.failed_files) :
            response.failed_files[k].error \in ValidationMessages)
    => LET N == Len(response.files)
           K == Cardinality(InvalidIn(response.files))
           ids == response.processing_jobs
       IN  /\ response.total_files = N
           /\ response.success_count + response.failure_count = N
           /\ response.failure_count = K
           /\ Len(ids) = N - K
           /\ response.uploaded_files
                = SelectSeq([k \in 1..N |-> response.files[k].filename],
                            LAMBDA name : \E k \in 1..N \ InvalidIn(response.files) :
                                              response.files[k].filename = name)
           /\ \A k \in 1..Len(ids) :
                  /\ \A m \in 1..Len(ids) : ids[m] = ids[k] => m = k
                  /\ Exists(ids[k])
                  /\ documents[ids[k]].original_filename = response.uploaded_files[k]
                  /\ documents[ids[k]].file_path \in storage
                  /\ Cardinality(JobsOf(ids[k])) = 1

\* Three files, the first and the last rejected, the one between uploaded.
C8_Witness ==
    /\ response.kind = "bulk"
    /\ response.total_files = 3
    /\ InvalidIn(response.files) = {1, 3}
    /\ response.failure_count = 2
    /\ response.success_count = 1
    /\ \A k \in 1..2 : response.failed_files[k].error = "File too large"

\* C9: in a bulk upload the failure of a file at any step is listed in
\* failed_files and the loop goes on to the next file; the handler always
\* returns a BulkUploadResponse that accounts for every file.
C9_BulkContinuesAfterFailure ==
    /\ [](/\ bulk # None =>
              LET b == TheValue(bulk)
              IN  /\ b.i \in 1..Len(b.files)
                  /\ Len(b.uploaded_files) + Len(b.failed_files) = b.i - 1
          /\ response.kind = "bulk" =>
              /\ response.code = 200
              /\ response.total_files = Len(response.files)
              /\ response.success_count + response.failure_count = response.total_files)
    /\ [][ bulk # None =>
             LET b == TheValue(bulk)
             IN  \/ /\ b.i < Len(b.files)
                    /\ bulk' # None
                    /\ TheValue(bulk').i = b.i + 1
                 \/ /\ b.i = Len(b.files)
                    /\ bulk' = None
                    /\ response'.kind = "bulk" ]_vars

\* The first file could not be saved, the two after it were uploaded.
C9_Witness ==
    /\ response.kind = "bulk"
    /\ response.total_files = 3
    /\ response.files[1].filename = "a.pdf"
    /\ response.failed_files = << [filename |-> "a.pdf", error |-> "save failed"] >>
    /\ response.uploaded_files = << "b.txt", "a.pdf" >>

\* What an upload persists.
Persisted == << documents, nextId, jobs, storage, nextPath >>

\* C10: an upload, single or in a batch, whose file fails validation
\* persists nothing: no stored file, no document row, no job; every document
\* row is of a file that passes validation, so of at most MAX_FILE_SIZE bytes.
C10_RejectedUploadPersistsNothing ==
    /\ [](\A d \in DOMAIN documents :
              /\ validate_file(documents[d].original_filename, documents[d].file_size,
                               documents[d].mime_type).is_valid
              /\ documents[d].file_size <= MAX_FILE_SIZE
              /\ documents[d].file_path \in 1..(nextPath - 1)
              /\ Cardinality(JobsOf(d)) <= 1)
    /\ [][ /\ (/\ bulk' = bulk
               /\ response'.kind = "upload"
               /\ response'.code = 500
               /\ response'.detail \in ValidationMessages)
              => UNCHANGED Persisted
           /\ (/\ bulk # None
               /\ bulk' # bulk
               /\ ~IsValid(TheValue(bulk).files[TheValue(bulk).i]))
              => UNCHANGED Persisted ]_vars

\* An oversized single upload was rejected with nothing stored, no row and
\* no job.
C10_Witness ==
    /\ response = [kind |-> "upload", code |-> 500, detail |-> "File too large"]
    /\ documents = << >> /\ storage = {} /\ jobs = << >> /\ nextPath = 1

\* C11: a successful single upload creates exactly one document row, with
\* status pending, and schedules exactly one job for it; a job is scheduled
\* only in a step that has committed its row, never for a row that failed
\* to persist.
C11_UploadCreatesOneRowOneJob ==
    /\ [][ (/\ response'.kind = "upload"
            /\ response'.code = 200
            /\ response'.document_id = nextId)
           => /\ nextId \notin DOMAIN documents
              /\ DOMAIN documents' = DOMAIN documents \cup {nextId}
              /\ \A d \in DOMAIN documents : documents'[d] = documents[d]
              /\ documents'[nextId].processing_status = "pending"
              /\ nextId' = nextId + 1
              /\ Len(jobs') = Len(jobs) + 1
              /\ \A j \in DOMAIN jobs : jobs'[j] = jobs[j]
              /\ jobs'[Len(jobs')].doc = nextId
              /\ jobs'[Len(jobs')].pc = "scheduled" ]_vars
    /\ [][ Len(jobs') # Len(jobs)
           => /\ nextId' = nextId + 1
              /\ nextId \in DOMAIN documents'
              /\ jobs'[Len(jobs')].doc = nextId ]_vars
    /\ [](\A j \in DOMAIN jobs : jobs[j].doc < nextId)
    /\ [](\A d \in DOMAIN documents : Cardinality(JobsOf(d)) <= 1)

\* The upload has answered 200: its row is pending and its one job has not
\* started.
C11_Witness ==
    /\ response = [kind |-> "upload", code |-> 200, document_id |-> 1]
    /\ Exists(1)
    /\ StatusIn(1) = "pending"
    /\ Len(jobs) = 1
    /\ jobs[1].doc = 1 /\ jobs[1].pc = "scheduled"

\* A document the request may draw on: the requester's, completed, and in
\* each filter list that is given and not empty.
Eligible(d, asked) ==
    /\ d \in DOMAIN documents
    /\ documents[d].user_id = asked.user
    /\ documents[d].processing_status = "completed"
    /\ (asked.document_ids \notin {None, Some(<< >>)})
       => \E k \in DOMAIN TheValue(asked.document_ids) : TheValue(asked.document_ids)[k] = d
    /\ (asked.category_ids \notin {None, Some(<< >>)})
       => \E k \in DOMAIN TheValue(asked.category_ids) :
              documents[d].category_id = Some(TheValue(asked.category_ids)[k])

Answered == response.kind = "query" /\ response.code = 200

\* C12: a query whose filtered set holds no completed document of the
\* requester gets the fixed "no documents" answer with confidence 0.0 and no
\* source documents, and the query oracle is not called.
C12_NoDocumentsShortCircuit ==
    (/\ response.kind = "query"
     /\ \A d \in DOMAIN documents : ~Eligible(d, response.asked))
    => /\ response.code = 200
       /\ response.response
            = "No documents found to query. Please upload and process documents first."
       /\ response.confidence_score = Some(0)
       /\ response.source_documents = << >>
       /\ response.oracle_context = None

\* The requester has only an unfinished document, another user a completed
\* one with text: the requester's query was short-circuited.
C12_Witness ==
    /\ response.kind = "query"
    /\ response.oracle_context = None
    /\ response.asked.document_ids = None /\ response.asked.category_ids = None
    /\ \E d, o \in DOMAIN documents :
         /\ documents[d].user_id = response.asked.user
         /\ documents[d].processing_status = "processing"
         /\ documents[o].user_id # response.asked.user
         /\ documents[o].processing_status = "completed"
         /\ documents[o].extracted_text = Some(Text(o, 1))

\* C13: every document cited in source_documents, and every document whose
\* text is in the context given to the oracle, is the requester's, was
\* completed when selected and passes the document-id and category-id
\* filters that are given.
C13_OnlyOwnCompletedDocuments ==
    response.kind = "query" =>
        /\ response.oracle_context # None =>
               \A k \in DOMAIN TheValue(response.oracle_context) :
                   Eligible(TheValue(response.oracle_context)[k].char, response.asked)
        /\ response.code = 200 =>
               \A k \in DOMAIN response.source_documents :
                   Eligible(response.source_documents[k].id, response.asked)

\* One document is cited while a completed document with text of another
\* user, and so outside the answer, is in the table.
C13_Witness ==
    /\ Answered
    /\ Len(response.source_documents) = 1
    /\ \E o \in DOMAIN documents :
         /\ documents[o].user_id # response.asked.user
         /\ documents[o].processing_status = "completed"
         /\ documents[o].extracted_text = Some(Text(o, 1))

\* C14: the context given to the query oracle has at most 5 entries, each
\* the prefix of at most 2000 characters of one document's extracted text.
C14_ContextIsCapped ==
    (response.kind = "query" /\ response.oracle_context # None) =>
        LET context == TheValue(response.oracle_context)
        IN  /\ Len(context) <= 5
            /\ \A k \in DOMAIN context :
                   /\ context[k].len <= 2000
                   /\ context[k].char \in DOMAIN documents
                   /\ documents[context[k].char].extracted_text # None
                   /\ context[k].len
                        <= TheValue(documents[context[k].char].extracted_text).len

\* Six documents with text match; five are in the context, one of them cut
\* from 2001 characters to 2000.
C14_Witness ==
    /\ response.kind = "query"
    /\ response.oracle_context # None
    /\ Len(TheValue(response.oracle_context)) = 5
    /\ Cardinality({ d \in DOMAIN documents :
                       /\ Eligible(d, response.asked)
                       /\ TheValue(documents[d].extracted_text).len > 0 }) > 5
    /\ \E k \in 1..5 :
         LET entry == TheValue(response.oracle_context)[k]
         IN  /\ entry.len = 2000
             /\ TheValue(documents[entry.char].extracted_text).len = 2001

\* C15: source_documents is parallel to the context given to the oracle:
\* the same length, the k-th citation naming the document whose text prefix
\* is the k-th context entry, no document cited twice.
C15_CitationsParallelContext ==
    (Answered /\ response.oracle_context # None) =>
        LET context == TheValue(response.oracle_context)
            cited == response.source_documents
        IN  /\ Len(cited) = Len(context)
            /\ \A k \in DOMAIN cited :
                   /\ cited[k].id = context[k].char
                   /\ cited[k].filename = documents[cited[k].id].original_filename
                   /\ \A m \in DOMAIN cited : cited[m].id = cited[k].id => m = k

\* Of the first five documents in descending order one has no text: four
\* context entries and four citations, the first of document 6.
C15_Witness ==
    /\ Answered
    /\ response.oracle_context # None
    /\ Len(response.source_documents) = 4
    /\ response.source_documents[1].id = 6
    /\ \E d \in 2..5 : documents[d].extracted_text = Some(Text(d, 0))

\* C16: when the query oracle's dict lacks answer, confidence, reasoning or
\* suggestions, query_documents still answers 200 with every field of the
\* result, the missing ones by default: a fallback answer text, confidence
\* 0.0, no suggestions.
C16_QueryDefaults ==
    (response.kind = "query" /\ response.oracle_context # None
     /\ response.oracle_returned # None) =>
        LET dict == TheValue(response.oracle_returned)
        IN  /\ response.code = 200
            /\ response.response = IF "answer" \in DOMAIN dict THEN dict.answer
                                   ELSE Some("No response generated")
            /\ response.confidence_score = IF "confidence" \in DOMAIN dict
                                           THEN dict.confidence ELSE Some(0)
            /\ response.suggestions = IF "suggestions" \in DOMAIN dict
                                      THEN dict.suggestions ELSE Some(<< >>)
            /\ response.reasoning = IF "reasoning" \in DOMAIN dict
                                    THEN dict.reasoning ELSE None
            /\ response.response # None
            /\ response.confidence_score # None
            /\ response.suggestions # None

\* The oracle returned only its reasoning: the answer has the fallback
\* text, confidence 0.0 and no suggestions.
C16_Witness ==
    /\ Answered
    /\ response.oracle_context # None
    /\ response.oracle_returned = Some([reasoning |-> Some("r")])
    /\ response.response = Some("No response generated")
    /\ response.confidence_score = Some(0)
    /\ response.suggestions = Some(<< >>)
    /\ Len(response.source_documents) > 0

\* C17: once delete_document has succeeded for a document, its stored file
\* and its row are gone, a later get_document_status for that id answers
\* 404, and no later step, a job for that id included, brings the row or
\* the file back.
C17_DeletedStaysDeleted ==
    /\ [][ (/\ response' # response
            /\ response'.kind = "delete"
            /\ response'.code = 200)
           => LET d == response'.document_id
              IN  /\ d \in DOMAIN documents
                  /\ d \notin DOMAIN documents'
                  /\ documents[d].file_path \notin storage' ]_vars
    /\ [][ \A d \in DocIds :
             (d < nextId /\ d \notin DOMAIN documents) => d \notin DOMAIN documents' ]_vars
    /\ [][ \A f \in DocIds : (f < nextPath /\ f \notin storage) => f \notin storage' ]_vars
    /\ [][ (/\ response'.kind = "status"
            /\ response'.document_id \notin DOMAIN documents)
           => response'.code = 404 ]_vars

\* Document 1 was deleted while its job was waiting for the oracle; the job
\* has since found no row, and the owner's status read answers 404.
C17_Witness ==
    /\ response = [kind |-> "status", code |-> 404, document_id |-> 1]
    /\ nextId > 1
    /\ ~Exists(1)
    /\ storage = {}
    /\ \E j \in JobsOf(1) :
         /\ jobs[j].outcome \in {"stale", "gone"}
         /\ "extract_text" \in jobs[j].returned

\* C18: no document row points at a stored file that has been removed, also
\* after a delete_document that failed part-way (here: whenever no delete
\* is between its two steps).
C18_NoRowOutlivesItsFile ==
    deleting = None =>
        \A d \in DOMAIN documents : documents[d].file_path \in storage

NamedCategory(result) ==
    IF "category_name" \in DOMAIN result
       /\ \E i \in DOMAIN categories : Some(categories[i]) = result.category_name
    THEN { i \in DOMAIN categories :
             /\ Some(categories[i]) = result.category_name
             /\ \A k \in DOMAIN categories :
                    Some(categories[k]) = result.category_name => i <= k }
    ELSE None

NamesAt(files, keep) ==
    LET positions == SelectSeq([k \in 1..Len(files) |-> k], LAMBDA k : keep[k])
    IN  [k \in 1..Len(positions) |-> files[positions[k]].filename]

\* C21: the uploaded_files and the failed_files of a bulk response each list
\* their filenames in the order of the input batch, and a job step, in
\* whatever order the jobs run and complete, leaves the response as returned.
C21_ListsFollowInputOrder ==
    /\ [](response.kind = "bulk" =>
            \E keep \in [1..Len(response.files) -> BOOLEAN] :
                /\ response.uploaded_files = NamesAt(response.files, keep)
                /\ [k \in 1..Len(response.failed_files) |->
                       response.failed_files[k].filename]
                   = NamesAt(response.files, [k \in DOMAIN keep |-> ~keep[k]]))
    /\ [][(Len(jobs') = Len(jobs) /\ jobs' # jobs) => response' = response]_vars

\* Both files of a batch were uploaded; the job of the first has failed and
\* the job of the second has completed.
C21_Witness ==
    /\ response.kind = "bulk"
    /\ response.uploaded_files = << "a.pdf", "b.txt" >>
    /\ response.processing_jobs = << 1, 2 >>
    /\ Len(jobs) = 2
    /\ jobs[1].outcome = "failed"
    /\ jobs[2].outcome = "completed"

\* C22: every answer of get_document_status for an existing document
\* carries the status of its row and the progress fixed for that status:
\* pending 0.0, processing 0.5, completed 1.0, failed 0.0 (in percent).
C22_ProgressFollowsStatus ==
    [][(response' # response /\ response'.kind = "status" /\ response'.code = 200)
       => /\ Exists(response'.document_id)
          /\ response'.status = StatusIn(response'.document_id)
          /\ response'.status \in {"pending", "processing", "completed", "failed"}
          /\ response'.progress =
                 CASE response'.status = "pending" -> 0
                   [] response'.status = "processing" -> 50
                   [] response'.status = "completed" -> 100
                   [] response'.status = "failed" -> 0]_vars

\* A status read while the job awaits extraction: processing, one half.
C22_Witness ==
    /\ response.kind = "status"
    /\ response.code = 200
    /\ response.status = "processing"
    /\ response.progress = 50
    /\ \E j \in DOMAIN jobs :
         jobs[j].doc = response.document_id /\ jobs[j].pc = "extract_text"

\* The rows of a table that carry this name.
RowsNamed(table, name) == { i \in DOMAIN table : table[i] = name }

\* C23: no table ever holds two categories of one name; a run of
\* init_document_categories that commits keeps every row it found and
\* leaves exactly one category for each default name; a run on a table that
\* already holds the default names creates nothing.
C23_SeedingIsIdempotent ==
    /\ [](\A i, k \in DOMAIN categories : categories[i] = categories[k] => i = k)
    /\ [][(response'.kind = "seed" /\ response'.code = 200)
          => /\ Len(categories') >= Len(categories)
             /\ SubSeq(categories', 1, Len(categories)) = categories
             /\ \A n \in DOMAIN default_categories :
                    Cardinality(RowsNamed(categories', default_categories[n])) = 1
             /\ Len(categories') - Len(categories) = Len(response'.created)
             /\ (\A n \in DOMAIN default_categories :
                     RowsNamed(categories, default_categories[n]) # {})
                => categories' = categories]_vars

\* A run on a table that held a category of its own and every default name
\* created nothing, after an earlier run had added four of the defaults.
C23_Witness ==
    /\ response.kind = "seed"
    /\ response.code = 200
    /\ response.created = << >>
    /\ categories = << "Custom", "Governance", "Cap Table", "Compliance",
                       "Formation", "Directors & Officers", "Employees",
                       "Intellectual Property" >>

\* C24: a run of process_document_async awaits extract_text at most once
\* and classify_document at most once, the latter only after extract_text
\* returned; once a run has ended it never resumes; jobs are created for new
\* documents only, so a failed document has no job that is scheduled or
\* running and never gets one.
C24_NoRetry ==
    /\ [][/\ \A j \in DOMAIN jobs :
                jobs'[j].pc # jobs[j].pc =>
                    \/ jobs[j].pc = "scheduled"
                       /\ jobs'[j].pc \in {"extract_text", "done"}
                    \/ jobs[j].pc = "extract_text"
                       /\ jobs'[j].pc = "done"
                    \/ jobs[j].pc = "extract_text"
                       /\ jobs'[j].pc = "classify_document"
                       /\ "extract_text" \in jobs'[j].returned
                    \/ jobs[j].pc = "classify_document"
                       /\ jobs'[j].pc = "done"
          /\ \A j \in DOMAIN jobs' \ DOMAIN jobs :
                jobs'[j].doc \notin DOMAIN documents /\ jobs'[j].doc >= nextId]_vars
    /\ [](\A d \in DOMAIN documents :
              StatusIn(d) = "failed" => \A j \in JobsOf(d) : jobs[j].pc = "done")

\* Extraction raised, the document is failed, its only job has ended, and
\* the owner reads the status: failed, with the error.
C24_Witness ==
    /\ response.kind = "status"
    /\ response.code = 200
    /\ response.status = "failed"
    /\ response.error_message = Some("ExtractionError")
    /\ \E d \in DOMAIN documents :
         /\ d = response.document_id
         /\ StatusIn(d) = "failed"
         /\ Cardinality(JobsOf(d)) = 1
         /\ \A j \in JobsOf(d) : jobs[j].pc = "done" /\ jobs[j].returned = {}

\* C25: the write of the except block carries the extracted text the run
\* had assigned: a step that makes a document failed leaves in
\* extracted_text the text extract_text returned to that run, and a failed
\* document has an extracted_text exactly when the extraction of its run
\* had returned.
C25_FailureKeepsExtractedText ==
    /\ [][\A d \in DOMAIN documents :
            (d \in DOMAIN documents' /\ StatusIn(d) # "failed"
                /\ documents'[d].processing_status = "failed")
            => \E j \in JobsOf(d) :
                  /\ Running(j)
                  /\ jobs'[j].pc = "done"
                  /\ documents'[d].extracted_text =
                        IF jobs[j].pc = "classify_document"
                        THEN jobs[j].pending.extracted_text
                        ELSE None]_vars
    /\ [](\A d \in DOMAIN documents :
              StatusIn(d) = "failed" =>
                  \A j \in JobsOf(d) :
                      documents[d].extracted_text # None
                      <=> "extract_text" \in jobs[j].returned)

\* The extraction returned a text of four characters, the oracle raised:
\* the document is failed and holds that text.
C25_Witness ==
    \E d \in DOMAIN documents :
        /\ StatusIn(d) = "failed"
        /\ documents[d].extracted_text = Some(Text("t", 4))
        /\ documents[d].processing_error = Some("OracleError")
        /\ documents[d].classification_confidence = None

\* C26: an answer of get_document_status carries a classification_result
\* exactly when the row is completed and has a category, and then that of
\* the row; a completed row without a category, and every pending,
\* processing or failed row, is answered with no classification_result.
C26_ClassificationResultOnlyWhenResolved ==
    [][(response' # response /\ response'.kind = "status" /\ response'.code = 200)
       => LET doc == documents[response'.document_id]
          IN  /\ response'.classification_result # None
                 <=> (doc.processing_status = "completed" /\ doc.category_id # None)
              /\ response'.classification_result # None
                 => /\ TheValue(response'.classification_result).category_id = doc.category_id
                    /\ TheValue(response'.classification_result).category_name
                         = categories[TheValue(doc.category_id)]]_vars

\* The oracle named a category that does not exist: the document is
\* completed, with the oracle's confidence, and its status carries no
\* classification_result.
C26_Witness ==
    /\ response.kind = "status"
    /\ response.code = 200
    /\ response.status = "completed"
    /\ response.classification_result = None
    /\ Exists(response.document_id)
    /\ documents[response.document_id].classification_confidence = Some(40)
    /\ documents[response.document_id].category_id = None

\* A run that an exception has left: raised inside the except block, it is
\* caught by nothing in process_document_async.
Escaped(j) == jobs[j].pc = "done" /\ jobs[j].outcome = "stale"

\* C27: a job that starts after its document was deleted writes nothing; no
\* step brings back a document that was deleted, whatever its job was doing
\* at the time; and no run is left by an exception.
C27_DeletedDocumentJobIsQuiet ==
    /\ [][\A j \in DOMAIN jobs :
            (jobs[j].pc = "scheduled" /\ ~Exists(jobs[j].doc) /\ jobs'[j] # jobs[j])
            => /\ jobs'[j].pc = "done"
               /\ jobs'[j].outcome = "not_found"
               /\ << documents, storage, categories >>' = << documents, storage, categories >>]_vars
    /\ [][\A d \in 1..(nextId - 1) : ~Exists(d) => d \notin DOMAIN documents']_vars
    /\ [](\A j \in DOMAIN jobs : ~Escaped(j))

\* The first five of a set of documents, by ascending or by descending id.
FirstFive(ids, order) ==
    { d \in ids :
        Cardinality({ e \in ids : IF order = "asc" THEN e < d ELSE e > d }) < 5 }

HasText(d) ==
    /\ documents[d].extracted_text # None
    /\ TheValue(documents[d].extracted_text).len > 0

\* C28: the query oracle is called exactly when some completed document of
\* the requester passes the filters, an empty document_ids or category_ids
\* list filtering nothing; its context is made of those of the first five
\* matching documents that have text, and of no other, so it may be empty,
\* and source_documents names the same documents.
C28_OracleCalledIffDocumentsMatch ==
    response.kind = "query" =>
        LET matching == { d \in DOMAIN documents : Eligible(d, response.asked) }
        IN  /\ response.oracle_context # None <=> matching # {}
            /\ response.oracle_context # None =>
                  \E order \in {"asc", "desc"} :
                      LET context == TheValue(response.oracle_context)
                          used == { d \in FirstFive(matching, order) : HasText(d) }
                      IN  /\ Len(context) = Cardinality(used)
                          /\ { context[k].char : k \in DOMAIN context } = used
                          /\ response.code = 200 =>
                                /\ Len(response.source_documents) = Cardinality(used)
                                /\ { response.source_documents[k].id :
                                        k \in DOMAIN response.source_documents } = used

\* Both filter lists are empty and six documents match; the first five have
\* no text, the sixth has: the oracle is called with an empty context and
\* the answer cites no document.
C28_Witness ==
    /\ Answered
    /\ response.asked.document_ids = Some(<< >>)
    /\ response.asked.category_ids = Some(<< >>)
    /\ response.oracle_context = Some(<< >>)
    /\ response.source_documents = << >>
    /\ Len(documents) = 6
    /\ \A d \in 1..5 : Eligible(d, response.asked) /\ ~HasText(d)
    /\ Eligible(6, response.asked) /\ HasText(6)

\* How many entries of a list of filenames are this name.
Count(names, name) == Cardinality({ k \in DOMAIN names : names[k] = name })

\* C29: in a bulk response every input file is in exactly one of
\* uploaded_files and failed_files (name by name, the two lists together
\* hold as many entries as the input has files of that name), also when the
\* refresh after the commit of a row failed; processing_jobs has one
\* document id for each entry of uploaded_files, in the same order, each the
\* id of the row of that file, which has one job.
C29_EveryFileInOneList ==
    response.kind = "bulk" =>
        LET input == [k \in DOMAIN response.files |-> response.files[k].filename]
            failed == [k \in DOMAIN response.failed_files |->
                          response.failed_files[k].filename]
            ids == response.processing_jobs
        IN  /\ Len(response.uploaded_files) + Len(failed) = Len(input)
            /\ \A k \in DOMAIN input :
                   Count(response.uploaded_files, input[k]) + Count(failed, input[k])
                     = Count(input, input[k])
            /\ Len(ids) = Len(response.uploaded_files)
            /\ \A k \in DOMAIN ids :
                   /\ \A m \in DOMAIN ids : ids[m] = ids[k] => m = k
                   /\ Exists(ids[k])
                   /\ documents[ids[k]].original_filename = response.uploaded_files[k]
                   /\ Cardinality(JobsOf(ids[k])) = 1

\* The row of a.pdf was committed and its refresh failed: a.pdf is listed as
\* failed only, its row has no job, and the two files after it are uploaded.
C29_Witness ==
    /\ response.kind = "bulk"
    /\ response.files[1].filename = "a.pdf"
    /\ response.failed_files = << [filename |-> "a.pdf", error |-> "refresh failed"] >>
    /\ response.uploaded_files = << "b.txt", "a.pdf" >>
    /\ response.processing_jobs = << 2, 3 >>
    /\ Exists(1) /\ JobsOf(1) = {}

====
